---- MODULE Spec2Model ----
(***************************************************************************)
(* Model of the taskflow-api admission and caching core:                   *)
(*   RateLimitGuard (src/common/guards/rate-limit.guard.ts) over a Redis   *)
(*   store, and CacheService (src/common/services/cache.service.ts) over   *)
(*   the cache-manager store.                                              *)
(*                                                                         *)
(* Time is counted in ticks, TicksPerSec ticks to the second.  A rate      *)
(* limit record is a Redis string key holding a counter and an absolute    *)
(* expiry; a request of the guard is a process that walks through the      *)
(* awaits of handleRateLimit: get, then ttl (over the limit) or the        *)
(* multi().incr().expire().exec() transaction.                             *)
(*                                                                         *)
(* A call of CacheService is a process that walks through the awaits of    *)
(* its method: the store operation, then the update of cachedKeys.         *)
(* Spec and SpecSeq run the guard (concurrent, and one request at a time); *)
(* SpecCache runs concurrent cache calls with store failures, SpecCacheSeq *)
(* one cache call at a time with mset and mget, SpecCacheOk concurrent     *)
(* set, delete and clear without store failure.                            *)
(***************************************************************************)
EXTENDS Integers, Sequences, FiniteSets, TLC

\* ------------------------------------------------------------------ bounds
TicksPerSec == 4
MaxTime == 5
NProcs == 2
MaxLog == 4
MaxStarts == 3
NCallers == 2
NKeys == 1
MaxBulk == 2

\* ------------------------------------------------------------- input sets
Procs == 1..NProcs
Idents == {"ip1", "ip2"}
Routes == {"GET:/a", "GET:/b", "GET:/open"}
NoPolicy == [limit |-> -1, windowMs |-> -1]
\* the policies the first route may carry: windows of 500, 1000 and 1500 ms
PolicyChoices == [limit : {1, 2}, windowMs : {500, 1000, 1500}]
\* the sequential runs use one identity and one route
SeqIdents == {"ip1"}
SeqRoutes == {"GET:/a"}

VARIABLES
    now,      \* the clock, in ticks
    policy,   \* route -> RateLimitOptions or NoPolicy (set by the decorator)
    store,    \* Redis: key -> [present, val, exp]
    req,      \* process -> the request it is handling
    log,      \* the requests of a sequential run, oldest first
    starts,   \* number of requests issued so far
    admitted, \* the (identity, route) pairs whose increment has been executed
    heap,       \* JavaScript objects: id -> the value of the object's field
    cstore,     \* the cache-manager store: namespaced key -> entry
    cachedKeys, \* CacheService.cachedKeys
    call        \* caller -> the CacheService call it makes and the value it holds

rlVars == <<policy, store, req, log, starts, admitted>>
cacheVars == <<heap, cstore, cachedKeys, call>>
vars == <<now, policy, store, req, log, starts, admitted, heap, cstore, cachedKeys, call>>

\* ------------------------------------------------------------ Redis store
NoExpiry == -1
Absent == [present |-> FALSE, val |-> 0, exp |-> NoExpiry]

\* GET key: the value, or Nil when the key does not exist
Nil == -1
RedisGet(s, k) == IF s[k].present THEN s[k].val ELSE Nil

\* TTL key: -2 when the key does not exist, -1 when it has no expiry,
\* otherwise the remaining milliseconds rounded to the nearest second
RedisTtl(s, k, t) ==
    IF ~s[k].present THEN -2
    ELSE IF s[k].exp = NoExpiry THEN -1
    ELSE (((s[k].exp - t) * 1000) \div TicksPerSec + 500) \div 1000

\* INCR key: an absent key is created at 1 with no expiry
RedisIncr(s, k) ==
    IF s[k].present
    THEN [s EXCEPT ![k].val = @ + 1]
    ELSE [s EXCEPT ![k] = [present |-> TRUE, val |-> 1, exp |-> NoExpiry]]

\* EXPIRE key seconds: replaces whatever expiry the key has; a timeout that
\* is not positive deletes the key
RedisExpire(s, k, seconds, t) ==
    IF ~s[k].present THEN s
    ELSE IF seconds <= 0 THEN [s EXCEPT ![k] = Absent]
    ELSE [s EXCEPT ![k].exp = t + seconds * TicksPerSec]

\* the increment without the expire
MultiIncrOnly(s, k, seconds, t) == RedisIncr(s, k)

\* the transaction with its increment lost
MultiIncrExpireLost(s, k, seconds, t) == RedisExpire(s, k, seconds, t)

\* MULTI / INCR / EXPIRE / EXEC, executed as one unit
MultiIncrExpire(s, k, seconds, t) == RedisExpire(RedisIncr(s, k), k, seconds, t)

\* keys whose expiry has passed are gone
Purge(s, t) ==
    [k \in DOMAIN s |->
        IF s[k].present /\ s[k].exp # NoExpiry /\ s[k].exp <= t THEN Absent ELSE s[k]]

\* --------------------------------------------------------- RateLimitGuard
\* a key built from the identity alone
RateKeyNoRoute(ip, route) == <<ip, "GET:/a">>

\* const key = `ratelimit:${hashedIp}:${route}` (sha256 is taken as injective)
RateKey(ip, route) == <<ip, route>>

Keys == {RateKey(i, r) : i \in Idents, r \in Routes}

\* a route without options falls back to a default policy
RateLimitOptionsDefault(route) ==
    IF policy[route] = NoPolicy THEN [limit |-> 1, windowMs |-> 1000] ELSE policy[route]

\* reflector.getAllAndOverride(RATE_LIMIT_KEY, ...)
RateLimitOptions(route) == policy[route]

\* the window rounded up to whole seconds
WindowSecondsCeil(windowMs) == (windowMs + 999) \div 1000

\* const windowSeconds = Math.floor(windowMs / 1000)
WindowSeconds(windowMs) == windowMs \div 1000

\* const currentCount = current ? parseInt(current, 10) : 0
CurrentCount(current) == IF current = Nil THEN 0 ELSE current

\* the comparison off by one
OverLimitStrict(currentCount, limit) == currentCount > limit

\* if (currentCount >= limit)
OverLimit(currentCount, limit) == currentCount >= limit

\* new Date(Date.now() + ttl * 1000), in ticks
NextValidRequestTime(t, ttl) == t + ttl * TicksPerSec

\* lines 76-86: the body of the HttpException a rejected request carries;
\* r is the request (cur is the counter it read, ttl the TTL it read) and t
\* the time of the decision
Rejection(r, t) ==
    [statusCode |-> 429,
     limit |-> RateLimitOptions(r.route).limit,
     current |-> r.cur,
     remainingRequests |-> 0,
     nextValidRequestTime |-> NextValidRequestTime(t, r.ttl)]

\* a catch block that rethrows whatever it caught
CatchOutcomeRethrow(error) == IF error = "HttpException" THEN "Rejected" ELSE "Error"

\* the catch block: an HttpException is rethrown, anything else is logged
\* and the request allowed
CatchOutcome(error) == IF error = "HttpException" THEN "Rejected" ELSE "Allowed"

Idle == [pc |-> "idle", ip |-> "ip1", route |-> "GET:/a", cur |-> 0, ttl |-> 0,
         res |-> "none", nops |-> 0, failed |-> FALSE]

\* ----------------------------------------------------------- CacheService
Callers == 1..NCallers
KeyNames == <<"a", "b", "c">>
KeySeq == SubSeq(KeyNames, 1, NKeys)
CacheKeys == {KeySeq[i] : i \in DOMAIN KeySeq}
\* "" stands for a key that is empty or not a string
KeyInputs == CacheKeys \cup {""}
TtlChoices == {300}
\* one object per entry of the store and per caller, and those a call builds:
\* its argument and one copy per key
ObjIds == 1..(2 * Len(KeySeq) + NCallers + 1)
\* the key lists of mset and mget: no key twice
BulkKeys ==
    {ks \in UNION {[1..n -> KeyInputs] : n \in 0..MaxBulk} :
        \A i, j \in DOMAIN ks : i # j => ks[i] # ks[j]}

\* A value is a primitive or a reference to an object of the heap; an object
\* has one field, whose value the heap gives.
Prim(x) == [t |-> "prim", p |-> x, id |-> 0]
Ref(i) == [t |-> "obj", p |-> "", id |-> i]
Null == Prim("null")
Undefined == Prim("undefined")
FreeCell == "free"

\* the values a caller builds, written out in full: the number 7, { a: 1 }
\* and { a: new Date(..) }
ValueShapes == {<<"prim", "7">>, <<"obj", "1">>, <<"obj", "Date">>}

\* a value written out in full (what a deep comparison looks at)
DeepValue(h, v) == IF v.t = "prim" THEN <<"prim", v.p>> ELSE <<"obj", h[v.id]>>

FreeIds(h) == {i \in ObjIds : h[i] = FreeCell}
MinId(S) == CHOOSE x \in S : \A y \in S : x <= y

\* the caller's own construction of a value
Make(h, shape) ==
    IF shape[1] = "prim" THEN [heap |-> h, val |-> Prim(shape[2])]
    ELSE LET id == MinId(FreeIds(h))
         IN [heap |-> [h EXCEPT ![id] = shape[2]], val |-> Ref(id)]

\* JSON.stringify of a field: a Date becomes its ISO string, NaN becomes null
JsonField(x) == IF x = "Date" THEN "ISOString" ELSE IF x = "NaN" THEN "null" ELSE x

\* JSON.parse(JSON.stringify(value)): a fresh object holding the JSON image
JsonClone(h, v) ==
    LET id == MinId(FreeIds(h))
    IN [heap |-> [h EXCEPT ![id] = JsonField(h[v.id])], val |-> Ref(id)]

\* set, lines 37-38: typeof value === 'object' && value !== null ? clone : value
ValueToStore(h, v) == IF v.t = "obj" THEN JsonClone(h, v) ELSE [heap |-> h, val |-> v]

\* get, lines 60-64: an object is cloned, anything else returned as it is
ValueToReturn(h, v) == IF v.t = "obj" THEN JsonClone(h, v) ELSE [heap |-> h, val |-> v]

\* getNamespacedKey, lines 23-28
ValidKey(key) == key # ""
Namespace == "taskflow:development:"
getNamespacedKey(key) == <<Namespace, key>>
NsKeys == {getNamespacedKey(k) : k \in CacheKeys}

NoShape == <<"prim", "undefined">>
CAbsent == [present |-> FALSE, val |-> Undefined, ttl |-> 0, orig |-> NoShape]

\* err is what went wrong inside the call: "key" (getNamespacedKey threw),
\* "store" (the store operation rejected) or "arg" (the bulk argument is not a
\* list); keys, pend and res belong to mset and mget: the keys asked for, the
\* namespaced keys written and not yet tracked, the mapping returned
NoCall == [pc |-> "idle", op |-> "none", key |-> "", val |-> Undefined, ret |-> "none",
           got |-> NoShape, expect |-> NoShape, err |-> "none",
           keys |-> <<>>, pend |-> {}, res |-> <<>>]
\* catch blocks that let the error through
CatchReturnRethrow(op) == "throws"
\* the catch blocks, lines 46-49, 65-69, 84-88 and 121-125: log, and return
\* nothing (set), null (get) or false (delete, has)
CatchReturn(op) ==
    CASE op = "set" -> "void"
      [] op = "get" -> "null"
      [] op = "delete" -> "false"
      [] op = "has" -> "false"
KeyError(key, ok) == IF ~ValidKey(key) THEN "key" ELSE IF ~ok THEN "store" ELSE "none"

\* The objects are numbered in the order in which the store and the callers
\* hold them; an object nobody holds is garbage.
Holders(s, c) ==
    [i \in 1..(Len(KeySeq) + NCallers) |->
        IF i <= Len(KeySeq) THEN s[getNamespacedKey(KeySeq[i])].val.id
        ELSE c[i - Len(KeySeq)].val.id]
Rank(hs, x) ==
    IF x = 0 THEN 0
    ELSE Cardinality({hs[j] : j \in 1..MinId({i \in DOMAIN hs : hs[i] = x})} \ {0})
Commit(h, s, c) ==
    \E hh \in {h}, ss \in {s}, cc \in {c} :
    \E hs \in {Holders(ss, cc)} :
    \E rk \in {[x \in {0} \cup ObjIds |-> IF x \in {hs[i] : i \in DOMAIN hs} THEN Rank(hs, x) ELSE 0]} :
       /\ heap' = [r \in ObjIds |->
                      IF \E x \in ObjIds : rk[x] = r
                      THEN hh[CHOOSE x \in ObjIds : rk[x] = r] ELSE FreeCell]
       /\ cstore' = [k \in DOMAIN ss |-> [ss[k] EXCEPT !.val.id = rk[@]]]
       /\ call' = [p \in DOMAIN cc |-> [cc[p] EXCEPT !.val.id = rk[@]]]

Init ==
    /\ now = 0
    /\ policy \in [Routes -> PolicyChoices \cup {NoPolicy}]
    /\ policy["GET:/a"] \in PolicyChoices
    /\ policy["GET:/b"] = [limit |-> 1, windowMs |-> 1000]
    /\ policy["GET:/open"] = NoPolicy
    /\ store = [k \in Keys |-> Absent]
    /\ req = [p \in Procs |-> Idle]
    /\ log = <<>>
    /\ starts = 0
    /\ admitted = {}
    /\ heap = [i \in ObjIds |-> FreeCell]
    /\ cstore = [k \in NsKeys |-> CAbsent]
    /\ cachedKeys = {}
    /\ call = [p \in Callers |-> NoCall]

\* time passes
Tick ==
    /\ now < MaxTime
    /\ now' = now + 1
    /\ store' = Purge(store, now + 1)
    /\ UNCHANGED <<policy, req, log, starts, admitted, cacheVars>>

Free(p) == req[p].pc \in {"idle", "done"}

\* canActivate, lines 28-38: no options on the route, return true
AdmitNoPolicy(p, ip, route) ==
    /\ Free(p)
    /\ RateLimitOptions(route) = NoPolicy
    /\ req' = [req EXCEPT ![p] = [Idle EXCEPT !.pc = "done", !.ip = ip, !.route = route,
                                   !.res = "Allowed"]]
    /\ starts' = starts + 1
    /\ UNCHANGED <<now, policy, store, log, admitted>>

\* canActivate, lines 40-48, and handleRateLimit up to its first await
Start(p, ip, route) ==
    /\ Free(p)
    /\ RateLimitOptions(route) # NoPolicy
    /\ req' = [req EXCEPT ![p] = [Idle EXCEPT !.pc = "get", !.ip = ip, !.route = route]]
    /\ starts' = starts + 1
    /\ UNCHANGED <<now, policy, store, admitted>>

\* line 65-68: await redis.get(key), the comparison with the limit
Get(p) ==
    /\ req[p].pc = "get"
    /\ LET key == RateKey(req[p].ip, req[p].route)
           currentCount == CurrentCount(RedisGet(store, key))
           limit == RateLimitOptions(req[p].route).limit
       IN req' = [req EXCEPT ![p].cur = currentCount,
                             ![p].nops = @ + 1,
                             ![p].pc = IF OverLimit(currentCount, limit) THEN "ttl" ELSE "multi"]
    /\ UNCHANGED <<now, policy, store, log, starts, admitted>>

\* a rejection that restarts the window of the record
RejectExtending(p) ==
    /\ req[p].pc = "ttl"
    /\ LET key == RateKey(req[p].ip, req[p].route)
           windowSeconds == WindowSeconds(policy[req[p].route].windowMs)
           ttl == RedisTtl(store, key, now)
       IN /\ req' = [req EXCEPT ![p].ttl = ttl,
                                ![p].nops = @ + 1,
                                ![p].res = "Rejected",
                                ![p].pc = "done"]
          /\ store' = RedisExpire(store, key, windowSeconds, now)
    /\ UNCHANGED <<now, policy, starts, admitted>>

\* line 70-86: await redis.ttl(key), throw the HttpException
Reject(p) ==
    /\ req[p].pc = "ttl"
    /\ LET key == RateKey(req[p].ip, req[p].route)
           ttl == RedisTtl(store, key, now)
       IN req' = [req EXCEPT ![p].ttl = ttl,
                             ![p].nops = @ + 1,
                             ![p].res = CatchOutcome("HttpException"),
                             ![p].pc = "done"]
    /\ UNCHANGED <<now, policy, store, starts, admitted>>

\* line 90-92: await redis.multi().incr(key).expire(key, windowSeconds).exec()
Allow(p) ==
    /\ req[p].pc = "multi"
    /\ LET key == RateKey(req[p].ip, req[p].route)
           windowSeconds == WindowSeconds(RateLimitOptions(req[p].route).windowMs)
       IN store' = MultiIncrExpire(store, key, windowSeconds, now)
    /\ req' = [req EXCEPT ![p].nops = @ + 1,
                          ![p].res = "Allowed",
                          ![p].pc = "done"]
    /\ admitted' = admitted \cup {<<req[p].ip, req[p].route>>}
    /\ UNCHANGED <<now, policy, starts>>

\* lines 93-105: a store operation rejects (connection lost); the transaction
\* may or may not have been executed by the server before the reply was lost
StoreError(p, applied) ==
    /\ req[p].pc \in {"get", "ttl", "multi"}
    /\ applied => req[p].pc = "multi"
    /\ LET key == RateKey(req[p].ip, req[p].route)
           windowSeconds == WindowSeconds(RateLimitOptions(req[p].route).windowMs)
       IN store' = IF applied THEN MultiIncrExpire(store, key, windowSeconds, now) ELSE store
    /\ req' = [req EXCEPT ![p].nops = @ + 1,
                          ![p].failed = TRUE,
                          ![p].res = CatchOutcome("RedisError"),
                          ![p].pc = "done"]
    /\ admitted' = IF applied THEN admitted \cup {<<req[p].ip, req[p].route>>} ELSE admitted
    /\ UNCHANGED <<now, policy, log, starts>>

\* ---------------------------------------------- concurrent specification
Next ==
    \/ Tick
    \/ \E p \in Procs, ip \in Idents, route \in Routes :
          starts < MaxStarts /\ AdmitNoPolicy(p, ip, route) /\ UNCHANGED cacheVars
    \/ \E p \in Procs, ip \in Idents, route \in Routes :
          starts < MaxStarts /\ Start(p, ip, route) /\ UNCHANGED <<log, cacheVars>>
    \/ \E p \in Procs : Get(p) /\ UNCHANGED cacheVars
    \/ \E p \in Procs : Reject(p) /\ UNCHANGED <<log, cacheVars>>
    \/ \E p \in Procs : Allow(p) /\ UNCHANGED <<log, cacheVars>>
    \/ \E p \in Procs, applied \in BOOLEAN : StoreError(p, applied) /\ UNCHANGED cacheVars

Spec == Init /\ [][Next]_vars

\* ---------------------------------------------- sequential specification
\* One identity, one route, one request at a time, no store failure.  The log
\* keeps, per request, the time it was issued (t0), the time of the decision
\* (at) and the decision.
Pending(t) == [t0 |-> t, at |-> t, res |-> "pending", cur |-> 0, ttl |-> 0, nvrt |-> 0]
Decided(e, r, t) ==
    [e EXCEPT !.at = t, !.res = r.res, !.cur = r.cur, !.ttl = r.ttl,
              !.nvrt = NextValidRequestTime(t, r.ttl)]
Logged(p) == log' = [log EXCEPT ![Len(log)] = Decided(@, req'[p], now)]

SeqStart ==
    /\ Len(log) < MaxLog
    /\ \E ip \in SeqIdents, route \in SeqRoutes : Start(1, ip, route)
    /\ log' = Append(log, Pending(now))
    /\ UNCHANGED cacheVars
SeqGet == Get(1) /\ UNCHANGED cacheVars
SeqReject == Reject(1) /\ Logged(1) /\ UNCHANGED cacheVars
SeqAllow == Allow(1) /\ Logged(1) /\ UNCHANGED cacheVars

SeqNext == Tick \/ SeqStart \/ SeqGet \/ SeqReject \/ SeqAllow

SpecSeq == Init /\ [][SeqNext]_vars

\* ----------------------------------------------------- CacheService calls
\* A caller makes one call at a time and holds one value: the argument it
\* built for set, or the result get returned to it.  Each action runs a
\* method up to its await, the store operation included; ok tells whether the
\* store operation succeeds.
CFree(p) == call[p].pc \in {"idle", "done"}
Released(p) == [call EXCEPT ![p] = NoCall]

\* set, lines 32-40: the key, the clone, await cacheManager.set
CSet(p, key, shape, ttlSeconds, ok) ==
    /\ CFree(p)
    /\ LET v == Make(heap, shape)
           stored == ValueToStore(v.heap, v.val)
           c0 == [NoCall EXCEPT !.op = "set", !.key = key, !.val = v.val]
       IN IF ~ValidKey(key) \/ ~ok
          THEN Commit(v.heap, cstore,
                      [call EXCEPT ![p] = [c0 EXCEPT !.pc = "done", !.ret = CatchReturn("set"),
                                                     !.err = KeyError(key, ok)]])
          ELSE Commit(stored.heap,
                      [cstore EXCEPT ![getNamespacedKey(key)] =
                          [present |-> TRUE, val |-> stored.val, ttl |-> ttlSeconds * 1000,
                           orig |-> DeepValue(v.heap, v.val)]],
                      [call EXCEPT ![p] = [c0 EXCEPT !.pc = "track"]])
    /\ UNCHANGED <<now, rlVars, cachedKeys>>

\* set, lines 42-45: this.cachedKeys.add(namespacedKey)
CSetTrack(p) ==
    /\ call[p].pc = "track"
    /\ cachedKeys' = cachedKeys \cup {getNamespacedKey(call[p].key)}
    /\ call' = [call EXCEPT ![p].pc = "done", ![p].ret = "void"]
    /\ UNCHANGED <<now, rlVars, heap, cstore>>

\* get, lines 54-70; miss is what cacheManager.get resolves to for a key it
\* does not hold (undefined or null, by the version of cache-manager)
CGet(p, key, ok, miss) ==
    /\ CFree(p)
    /\ LET nk == getNamespacedKey(key)
           c0 == [NoCall EXCEPT !.op = "get", !.key = key, !.pc = "done"]
       IN IF ~ValidKey(key) \/ ~ok
          THEN Commit(heap, cstore,
                      [call EXCEPT ![p] = [c0 EXCEPT !.ret = CatchReturn("get"), !.val = Null,
                                                     !.err = KeyError(key, ok)]])
          ELSE IF ~cstore[nk].present
          THEN Commit(heap, cstore,
                      [call EXCEPT ![p] = [c0 EXCEPT !.ret = miss, !.val = Prim(miss)]])
          ELSE LET r == ValueToReturn(heap, cstore[nk].val)
               IN Commit(r.heap, cstore,
                         [call EXCEPT ![p] = [c0 EXCEPT !.ret = "value", !.val = r.val,
                                                        !.got = DeepValue(r.heap, r.val),
                                                        !.expect = cstore[nk].orig]])
    /\ UNCHANGED <<now, rlVars, cachedKeys>>

\* delete, lines 74-77 and 84-88: await cacheManager.del
CDelete(p, key, ok) ==
    /\ CFree(p)
    /\ LET c0 == [NoCall EXCEPT !.op = "delete", !.key = key]
       IN IF ~ValidKey(key) \/ ~ok
          THEN Commit(heap, cstore,
                      [call EXCEPT ![p] = [c0 EXCEPT !.pc = "done", !.ret = CatchReturn("delete"),
                                                     !.err = KeyError(key, ok)]])
          ELSE Commit(heap, [cstore EXCEPT ![getNamespacedKey(key)] = CAbsent],
                      [call EXCEPT ![p] = [c0 EXCEPT !.pc = "untrack"]])
    /\ UNCHANGED <<now, rlVars, cachedKeys>>

\* delete, lines 79-83: this.cachedKeys.delete(namespacedKey), return true
CDeleteUntrack(p) ==
    /\ call[p].pc = "untrack"
    /\ cachedKeys' = cachedKeys \ {getNamespacedKey(call[p].key)}
    /\ call' = [call EXCEPT ![p].pc = "done", ![p].ret = "true"]
    /\ UNCHANGED <<now, rlVars, heap, cstore>>

\* clear, lines 93-103: one cacheManager.del per tracked key, each of which
\* may fail (failed is the set of keys whose del fails)
CClear(p, failed) ==
    /\ CFree(p)
    /\ failed \subseteq cachedKeys
    /\ Commit(heap,
              [k \in NsKeys |-> IF k \in cachedKeys \ failed THEN CAbsent ELSE cstore[k]],
              [call EXCEPT ![p] = [NoCall EXCEPT !.op = "clear", !.pc = "reset"]])
    /\ UNCHANGED <<now, rlVars, cachedKeys>>

\* clear, lines 105-108: this.cachedKeys.clear()
CClearReset(p) ==
    /\ call[p].pc = "reset"
    /\ cachedKeys' = {}
    /\ call' = [call EXCEPT ![p].pc = "done", ![p].ret = "void"]
    /\ UNCHANGED <<now, rlVars, heap, cstore>>

\* has, lines 116-126
CHas(p, key, ok) ==
    /\ CFree(p)
    /\ LET c0 == [NoCall EXCEPT !.op = "has", !.key = key, !.pc = "done"]
       IN Commit(heap, cstore,
                 [call EXCEPT ![p] =
                     [c0 EXCEPT !.ret = IF ~ValidKey(key) \/ ~ok THEN CatchReturn("has")
                                        ELSE IF cstore[getNamespacedKey(key)].present
                                        THEN "true" ELSE "false",
                                !.err = KeyError(key, ok)]])
    /\ UNCHANGED <<now, rlVars, cachedKeys>>

\* what get resolves to, written out in full (lines 54-70)
MissValues == {"undefined", "null"}
GetReturns(h, s, key, ok, miss) ==
    IF ~ValidKey(key) \/ ~ok THEN <<"prim", "null">>
    ELSE IF ~s[getNamespacedKey(key)].present THEN <<"prim", miss>>
    ELSE LET r == ValueToReturn(h, s[getNamespacedKey(key)].val)
         IN DeepValue(r.heap, r.val)

\* an mset that gives up at the first entry whose key is refused
RECURSIVE MsetWritesStop(_, _, _, _, _, _)
MsetWritesStop(acc, v, keys, failed, ttlSeconds, i) ==
    IF i > Len(keys) \/ ~ValidKey(keys[i]) THEN acc
    ELSE IF keys[i] \in failed
    THEN MsetWritesStop(acc, v, keys, failed, ttlSeconds, i + 1)
    ELSE LET stored == ValueToStore(acc.heap, v)
             nk == getNamespacedKey(keys[i])
         IN MsetWritesStop([heap |-> stored.heap,
                            store |-> [acc.store EXCEPT ![nk] =
                                          [present |-> TRUE, val |-> stored.val,
                                           ttl |-> ttlSeconds * 1000,
                                           orig |-> DeepValue(acc.heap, v)]],
                            pend |-> acc.pend \cup {nk}],
                           v, keys, failed, ttlSeconds, i + 1)

\* mset, lines 134-135: entries.map(([key, value]) => this.set(key, value,
\* ttlSeconds)) runs every set up to its await, in the order of the list;
\* failed is the set of keys whose store write rejects
RECURSIVE MsetWrites(_, _, _, _, _, _)
MsetWrites(acc, v, keys, failed, ttlSeconds, i) ==
    IF i > Len(keys) THEN acc
    ELSE IF ~ValidKey(keys[i]) \/ keys[i] \in failed
    THEN MsetWrites(acc, v, keys, failed, ttlSeconds, i + 1)
    ELSE LET stored == ValueToStore(acc.heap, v)
             nk == getNamespacedKey(keys[i])
         IN MsetWrites([heap |-> stored.heap,
                        store |-> [acc.store EXCEPT ![nk] =
                                      [present |-> TRUE, val |-> stored.val,
                                       ttl |-> ttlSeconds * 1000,
                                       orig |-> DeepValue(acc.heap, v)]],
                        pend |-> acc.pend \cup {nk}],
                       v, keys, failed, ttlSeconds, i + 1)

\* mset, lines 129-135; every entry of the list pairs its key with the value
\* the caller built
CMset(p, isArray, keys, shape, ttlSeconds, failed) ==
    /\ CFree(p)
    /\ LET c0 == [NoCall EXCEPT !.op = "mset"]
       IN IF ~isArray
          THEN Commit(heap, cstore,
                      [call EXCEPT ![p] = [c0 EXCEPT !.pc = "done", !.ret = "throws",
                                                     !.err = "arg"]])
          ELSE LET v == Make(heap, shape)
                   w == MsetWrites([heap |-> v.heap, store |-> cstore, pend |-> {}],
                                   v.val, keys, failed, ttlSeconds, 1)
                   c1 == [c0 EXCEPT !.keys = keys, !.val = v.val, !.pend = w.pend,
                                    !.err = IF \E i \in DOMAIN keys : keys[i] \in failed
                                            THEN "store" ELSE "none"]
               IN Commit(w.heap, w.store,
                         [call EXCEPT ![p] =
                             IF w.pend = {} THEN [c1 EXCEPT !.pc = "done", !.ret = "void"]
                             ELSE [c1 EXCEPT !.pc = "mtrack"]])
    /\ UNCHANGED <<now, rlVars, cachedKeys>>

\* the continuation of one set of an mset, lines 42-45; mset returns when the
\* last of them has run
CMsetTrack(p, k) ==
    /\ call[p].pc = "mtrack"
    /\ k \in call[p].pend
    /\ cachedKeys' = cachedKeys \cup {k}
    /\ call' = [call EXCEPT ![p].pend = @ \ {k},
                            ![p].pc = IF call[p].pend = {k} THEN "done" ELSE "mtrack",
                            ![p].ret = IF call[p].pend = {k} THEN "void" ELSE "none"]
    /\ UNCHANGED <<now, rlVars, heap, cstore>>

\* mget, lines 139-147: every get runs up to its await, the results are
\* assembled under the keys as they were given
CMget(p, isArray, keys, failed, miss) ==
    /\ CFree(p)
    /\ LET c0 == [NoCall EXCEPT !.op = "mget", !.pc = "done"]
       IN IF ~isArray
          THEN Commit(heap, cstore,
                      [call EXCEPT ![p] = [c0 EXCEPT !.ret = "throws", !.err = "arg"]])
          ELSE Commit(heap, cstore,
                      [call EXCEPT ![p] =
                          [c0 EXCEPT !.keys = keys, !.ret = "map",
                                     !.err = IF \E i \in DOMAIN keys : keys[i] \in failed
                                             THEN "store" ELSE "none",
                                     !.res = [k \in {keys[i] : i \in DOMAIN keys} |->
                                                 GetReturns(heap, cstore, k, k \notin failed,
                                                            miss)]]])
    /\ UNCHANGED <<now, rlVars, cachedKeys>>

\* the caller writes to the object it holds
CallerMutate(p) ==
    /\ call[p].val.t = "obj"
    /\ heap[call[p].val.id] # "99"
    /\ heap' = [heap EXCEPT ![call[p].val.id] = "99"]
    /\ UNCHANGED <<now, rlVars, cstore, cachedKeys, call>>

\* the time to live of an entry runs out
CExpire(k) ==
    /\ cstore[k].present
    /\ Commit(heap, [cstore EXCEPT ![k] = CAbsent], call)
    /\ UNCHANGED <<now, rlVars, cachedKeys>>

CacheNext ==
    \/ \E p \in Callers, key \in KeyInputs, shape \in ValueShapes, ttl \in TtlChoices,
          ok \in BOOLEAN : CSet(p, key, shape, ttl, ok)
    \/ \E p \in Callers : CSetTrack(p)
    \/ \E p \in Callers, key \in KeyInputs, ok \in BOOLEAN, miss \in MissValues :
          CGet(p, key, ok, miss)
    \/ \E p \in Callers, key \in KeyInputs, ok \in BOOLEAN : CDelete(p, key, ok)
    \/ \E p \in Callers : CDeleteUntrack(p)
    \/ \E p \in Callers, failed \in SUBSET NsKeys : CClear(p, failed)
    \/ \E p \in Callers : CClearReset(p)
    \/ \E p \in Callers, key \in KeyInputs, ok \in BOOLEAN : CHas(p, key, ok)
    \/ \E p \in Callers : CallerMutate(p)
    \/ \E k \in NsKeys : CExpire(k)

InitCache == Init /\ policy["GET:/a"] = [limit |-> 2, windowMs |-> 1000]

SpecCache == InitCache /\ [][CacheNext]_vars

\* ------------------------------------- one cache call at a time, bulk calls
\* One caller makes one call after the other, each of them running to its
\* end before the next begins; mset and mget are among the calls.
SeqCallers == {1}
\* the arguments of a bulk call: something that is not a list, or a list of
\* keys with the keys whose store operation rejects
BulkArgs ==
    {<<FALSE, <<>>, {}>>} \cup
    {<<TRUE, keys, failed>> : keys \in BulkKeys, failed \in SUBSET CacheKeys}

SeqCacheNext ==
    \/ \E p \in SeqCallers, key \in KeyInputs, shape \in ValueShapes, ttl \in TtlChoices,
          ok \in BOOLEAN : CSet(p, key, shape, ttl, ok)
    \/ \E p \in SeqCallers : CSetTrack(p)
    \/ \E p \in SeqCallers, key \in KeyInputs, ok \in BOOLEAN, miss \in MissValues :
          CGet(p, key, ok, miss)
    \/ \E p \in SeqCallers, key \in KeyInputs, ok \in BOOLEAN : CDelete(p, key, ok)
    \/ \E p \in SeqCallers : CDeleteUntrack(p)
    \/ \E p \in SeqCallers, failed \in SUBSET NsKeys : CClear(p, failed)
    \/ \E p \in SeqCallers : CClearReset(p)
    \/ \E p \in SeqCallers, key \in KeyInputs, ok \in BOOLEAN : CHas(p, key, ok)
    \/ \E p \in SeqCallers, a \in BulkArgs, shape \in ValueShapes, ttl \in TtlChoices :
          CMset(p, a[1], a[2], shape, ttl, a[3])
    \/ \E p \in SeqCallers, k \in NsKeys : CMsetTrack(p, k)
    \/ \E p \in SeqCallers, a \in BulkArgs, miss \in MissValues :
          CMget(p, a[1], a[2], a[3], miss)
    \/ \E p \in SeqCallers : CallerMutate(p)
    \/ \E k \in NsKeys : CExpire(k)

SpecCacheSeq == InitCache /\ [][SeqCacheNext]_vars

\* -------------------------------- concurrent cache calls, no store failure
NoFailure == TRUE
CacheNextOk ==
    \/ \E p \in Callers, key \in CacheKeys, shape \in ValueShapes, ttl \in TtlChoices :
          CSet(p, key, shape, ttl, NoFailure)
    \/ \E p \in Callers : CSetTrack(p)
    \/ \E p \in Callers, key \in CacheKeys : CDelete(p, key, NoFailure)
    \/ \E p \in Callers : CDeleteUntrack(p)
    \/ \E p \in Callers : CClear(p, {})
    \/ \E p \in Callers : CClearReset(p)
    \/ \E k \in NsKeys : CExpire(k)

SpecCacheOk == InitCache /\ [][CacheNextOk]_vars

\* ================================================================ claims
Done(p) == req[p].pc = "done"
KeyOf(r) == RateKey(r.ip, r.route)
LimitOf(r) == policy[r.route].limit
\* the policy of the route of the sequential runs
SeqL == policy["GET:/a"].limit
SeqW == policy["GET:/a"].windowMs
Decisions == {i \in 1..Len(log) : log[i].res # "pending"}
\* request i was decided less than windowMs after the first request was issued
WithinWindow(i) == (log[i].at - log[1].t0) * 1000 < SeqW * TicksPerSec

\* C1: sequential requests of one identity to one route, all within windowMs
\* of the first and without store failure: the first L are Allowed, request
\* L+1 is Rejected with current = L.
C1_FirstLThenRejected ==
    \A i \in Decisions :
        WithinWindow(i) =>
            /\ i <= SeqL => log[i].res = "Allowed"
            /\ i = SeqL + 1 => log[i].res = "Rejected" /\ log[i].cur = SeqL

\* C2 (as claimed): the counter of a record never exceeds L + N - 1, and a
\* request is Allowed while the counter is at or above L only if it was in
\* flight between its check and its increment.
C2_Bound ==
    \A i \in Idents, r \in Routes :
        policy[r] # NoPolicy => store[RateKey(i, r)].val <= policy[r].limit + NProcs - 1
BecomesAllowed(p) == ~Done(p) /\ req'[p].pc = "done" /\ req'[p].res = "Allowed"
AtLimit(r) == store[KeyOf(r)].present /\ store[KeyOf(r)].val >= LimitOf(r)
C2_StepOriginal ==
    \A p \in Procs :
        BecomesAllowed(p) /\ policy[req'[p].route] # NoPolicy /\ AtLimit(req'[p])
            => req[p].pc = "multi" /\ req[p].cur < LimitOf(req[p])
C2_Original == [](C2_Bound) /\ [][C2_StepOriginal]_vars

\* C2 (amended): the counter of a record never exceeds L + N - 1, and a
\* request none of whose store operations failed is Allowed while the counter
\* is at or above L only if it was in flight between its check, which read a
\* count below L, and its increment.
C2_StepAmended ==
    \A p \in Procs :
        BecomesAllowed(p) /\ ~req'[p].failed /\ policy[req'[p].route] # NoPolicy
                          /\ AtLimit(req'[p])
            => req[p].pc = "multi" /\ req[p].cur < LimitOf(req[p])
C2_Overshoot == [](C2_Bound) /\ [][C2_StepAmended]_vars
C2_Witness ==
    \E p \in Procs :
        /\ Done(p) /\ req[p].res = "Allowed" /\ ~req[p].failed
        /\ LimitOf(req[p]) >= 1
        /\ store[KeyOf(req[p])].val = LimitOf(req[p]) + NProcs - 1

\* C3: fail open.  A request whose store operation failed is Allowed; the only
\* other outcome is Rejected, and then both reads succeeded and the count
\* read was at or above the limit.
C3_FailOpen ==
    \A p \in Procs :
        Done(p) =>
            /\ req[p].res \in {"Allowed", "Rejected"}
            /\ req[p].failed => req[p].res = "Allowed"
            /\ req[p].res = "Rejected" =>
                   ~req[p].failed /\ req[p].nops = 2 /\ req[p].cur >= LimitOf(req[p])
\* the TTL read of a request over the limit failed
C3_Witness ==
    \E p \in Procs :
        Done(p) /\ req[p].failed /\ req[p].nops = 2 /\ req[p].cur >= LimitOf(req[p])
                /\ req[p].res = "Allowed"

\* C4: an admitted request that increments an existing record leaves the
\* expiry of the record as it was.
C4_ExpiryKept ==
    [][\A k \in Keys :
          store[k].present /\ store'[k].present /\ store'[k].val = store[k].val + 1
              => store'[k].exp = store[k].exp]_vars

\* C5: no step of a request that ends in Rejected changes the store: not the
\* issue of the request, not its counter read, not its TTL read and decision.
RejectedPath(p) ==
    /\ req'[p] # req[p]
    /\ \/ req'[p].pc = "ttl"
       \/ req'[p].pc = "done" /\ req'[p].res = "Rejected"
C5_RejectedLeavesStore ==
    [][(\E p \in Procs : RejectedPath(p)) => store' = store]_vars
C5_Witness ==
    \E p \in Procs :
        Done(p) /\ req[p].res = "Rejected" /\ req[p].ttl >= 1
                /\ store[KeyOf(req[p])].present

\* C6: after a Rejected that reported a TTL of t seconds, a retry issued t
\* seconds or more after the decision is Allowed.
C6_RetryAfterTtl ==
    \A i \in Decisions :
        (i > 1 /\ log[i - 1].res = "Rejected" /\ log[i].t0 >= log[i - 1].nvrt)
            => log[i].res = "Allowed"

\* C7: a step of a request for (identity, route) leaves the record of every
\* other (identity, route) pair as it was, and a request is Rejected only if
\* an increment for its own pair has been executed.
C7_Frame ==
    \A p \in Procs :
        req'[p] # req[p] =>
            \A i \in Idents, r \in Routes :
                <<i, r>> # <<req'[p].ip, req'[p].route>>
                    => store'[RateKey(i, r)] = store[RateKey(i, r)]
C7_OwnQuota ==
    \A p \in Procs :
        Done(p) /\ req[p].res = "Rejected" => <<req[p].ip, req[p].route>> \in admitted
C7_Independent == [](C7_OwnQuota) /\ [][C7_Frame]_vars
\* one pair is Rejected, and a request of another pair was then Allowed
C7_Witness ==
    \E p, q \in Procs :
        /\ Done(p) /\ req[p].res = "Rejected"
        /\ Done(q) /\ req[q].res = "Allowed" /\ ~req[q].failed /\ req[q].nops = 2
        /\ KeyOf(req[q]) # KeyOf(req[p])
        /\ store[KeyOf(req[p])].present /\ store[KeyOf(req[q])].present

\* C8: a request to a route without a policy is Allowed and issues no store
\* operation.
C8_NoPolicyAllowed ==
    \A p \in Procs :
        (req[p].pc # "idle" /\ policy[req[p].route] = NoPolicy) =>
            /\ Done(p) /\ req[p].res = "Allowed"
            /\ req[p].nops = 0 /\ ~req[p].failed
\* the same identity is over its quota on another route
C8_Witness ==
    \E p \in Procs :
        /\ Done(p) /\ policy[req[p].route] = NoPolicy
        /\ \E r \in Routes :
              /\ policy[r] # NoPolicy
              /\ store[RateKey(req[p].ip, r)].present
              /\ store[RateKey(req[p].ip, r)].val >= policy[r].limit
        /\ starts >= 3

\* C9: with windowMs >= 1000, the requests Allowed in any closed interval of
\* floor(windowMs / 1000) seconds are at most 2 * limit.
AllowedIn(from, to) ==
    {j \in Decisions : log[j].res = "Allowed" /\ log[j].at >= from /\ log[j].at <= to}
C9_BoundaryBound ==
    SeqW >= 1000 =>
        \A i \in Decisions :
            Cardinality(AllowedIn(log[i].at, log[i].at + (SeqW \div 1000) * TicksPerSec))
                <= 2 * SeqL
\* 2 * limit requests Allowed in one interval, across the expiry of the record
C9_Witness ==
    /\ SeqW >= 1000
    /\ \E i \in Decisions :
          /\ Cardinality(AllowedIn(log[i].at, log[i].at + (SeqW \div 1000) * TicksPerSec))
                = 2 * SeqL
          /\ \E j \in Decisions : log[j].at > log[i].at /\ log[j].res = "Allowed"

\* a get that found the entry
GetHit(p) == call[p].op = "get" /\ call[p].pc = "done" /\ call[p].ret = "value"
\* the objects the store and the callers hold
HeldByStore == {cstore[k].val.id : k \in NsKeys} \ {0}
HeldBy(p) == {call[p].val.id} \ {0}

\* What the code does keep: the store, the argument of set and the results of
\* get never share an object, and a get returns the JSON image of the value
\* set, whatever the callers did to their objects since.
JsonImage(shape) == IF shape[1] = "obj" THEN <<"obj", JsonField(shape[2])>> ELSE shape
CopiesAreFresh ==
    /\ \A p \in Callers : HeldBy(p) \cap HeldByStore = {}
    /\ \A p, q \in Callers : p # q => HeldBy(p) \cap HeldBy(q) = {}
    /\ \A p \in Callers : GetHit(p) => call[p].got = JsonImage(call[p].expect)
\* C10: after set(k, v) with an object v, every get(k) before expiry, delete
\* or overwrite returns a value equal to v as it was at the time of set,
\* whatever was written since to v or to an earlier result of get, and the
\* store and the values the callers hold share no object.
C10_CopyIsolation ==
    /\ \A p \in Callers : GetHit(p) => call[p].got = call[p].expect
    /\ \A p \in Callers : HeldBy(p) \cap HeldByStore = {}
    /\ \A p, q \in Callers : p # q => HeldBy(p) \cap HeldBy(q) = {}

\* the step in which the clear() of p returns
ClearReturns(p) == call[p].op = "clear" /\ call[p].pc = "reset" /\ call'[p].pc = "done"

\* C11: when clear() returns, no other call having run meanwhile, the
\* tracking set is empty, every key that was tracked when it started is absent
\* from the store, and clear() has not thrown.
C11_ClearStep ==
    \A p \in Callers :
        ClearReturns(p) =>
            /\ cachedKeys' = {}
            /\ \A k \in cachedKeys : ~cstore'[k].present
            /\ call'[p].ret = "void"
C11_ClearRemovesTracked == [][C11_ClearStep]_vars

\* the step in which p makes a new call (the object its value refers to may
\* be renumbered by the steps of others)
Calls(p) ==
    /\ call[p].pc \in {"idle", "done"}
    /\ [call'[p] EXCEPT !.val = Undefined] # [call[p] EXCEPT !.val = Undefined]
StoreFailed(p) == Calls(p) /\ call'[p].err = "store"

\* C12: when the store operation fails, get returns null, has and delete
\* return false, set returns normally, none of them throws, and the tracking
\* set is as it was; a key enters the tracking set only in the continuation of
\* a set whose store write succeeded, and leaves it only in the continuation
\* of a delete whose store delete succeeded (or when clear resets the set).
C12_Step ==
    /\ \A p \in Callers :
          StoreFailed(p) /\ call'[p].op \in {"set", "get", "has", "delete"} =>
              /\ call'[p].pc = "done"
              /\ call'[p].ret = (CASE call'[p].op = "set" -> "void"
                                   [] call'[p].op = "get" -> "null"
                                   [] call'[p].op = "has" -> "false"
                                   [] call'[p].op = "delete" -> "false")
              /\ cachedKeys' = cachedKeys
              /\ \A k \in NsKeys : cstore'[k].present = cstore[k].present
                                   /\ cstore'[k].orig = cstore[k].orig
    /\ \A k \in cachedKeys' \ cachedKeys :
          \E p \in Callers :
              /\ call[p].op = "set" /\ call[p].pc = "track" /\ call[p].err = "none"
              /\ getNamespacedKey(call[p].key) = k
    /\ \A k \in cachedKeys \ cachedKeys' :
          \E p \in Callers :
              \/ call[p].op = "delete" /\ call[p].pc = "untrack" /\ call[p].err = "none"
                    /\ getNamespacedKey(call[p].key) = k
              \/ call[p].op = "clear" /\ call[p].pc = "reset"
C12_FailuresAbsorbed == [][C12_Step]_vars
\* a delete has failed on a key that is stored and tracked, and a set has failed
C12_Witness ==
    \E p, q \in Callers :
        /\ call[p].op = "delete" /\ call[p].err = "store" /\ call[p].ret = "false"
        /\ getNamespacedKey(call[p].key) \in cachedKeys
        /\ cstore[getNamespacedKey(call[p].key)].present
        /\ call[q].op = "set" /\ call[q].err = "store" /\ call[q].ret = "void"

\* C13: get(k) for a key that was never set, was deleted, was cleared or has
\* expired returns exactly null, the value it returns on an internal error.
C13_MissIsNull ==
    \A p \in Callers :
        call[p].op = "get" /\ call[p].pc = "done" /\ call[p].ret # "value" =>
            /\ call[p].ret = "null"
            /\ call[p].val = Null

\* the step in which the mget of p returns its mapping, no store read failing
MgetReturns(p) ==
    Calls(p) /\ call'[p].op = "mget" /\ call'[p].ret = "map" /\ call'[p].err = "none"
Requested(p) == {call'[p].keys[i] : i \in DOMAIN call'[p].keys}
Cached(k) == ValidKey(k) /\ cstore[getNamespacedKey(k)].present

\* C14: after an mset with no store failure, mget(keys) returns a mapping
\* whose keys are exactly the keys asked for, as they were given; a key that
\* is cached maps to the value set for it, a key that is not cached maps to
\* null, and every key maps to what get(key) returns at that time.
C14_Step ==
    \A p \in Callers :
        MgetReturns(p) =>
            /\ DOMAIN call'[p].res = Requested(p)
            /\ \A k \in Requested(p) :
                  /\ Cached(k) => call'[p].res[k] = cstore[getNamespacedKey(k)].orig
                  /\ ~Cached(k) => call'[p].res[k] = <<"prim", "null">>
                  /\ \E miss \in MissValues :
                        call'[p].res[k] = GetReturns(heap, cstore, k, TRUE, miss)
C14_BulkRoundTrip == [][C14_Step]_vars

\* the keys of the mset of p that getNamespacedKey accepts
MsetKeys(c) == {getNamespacedKey(c.keys[i]) : i \in {j \in DOMAIN c.keys : ValidKey(c.keys[j])}}

\* C15: set with an empty or non-string key returns normally and does
\* nothing: the store and the tracking set are as they were; in an mset such
\* an entry does not keep the other entries from being stored and tracked.
C15_Step ==
    \A p \in Callers :
        /\ Calls(p) /\ call'[p].op = "set" /\ ~ValidKey(call'[p].key) =>
              /\ call'[p].pc = "done" /\ call'[p].ret = "void"
              /\ cachedKeys' = cachedKeys
              /\ \A k \in NsKeys : cstore'[k].present = cstore[k].present
                                   /\ cstore'[k].orig = cstore[k].orig
        /\ Calls(p) /\ call'[p].op = "mset" /\ call'[p].err = "none" =>
              /\ call'[p].ret # "throws"
              /\ call'[p].pend = MsetKeys(call'[p])
              /\ \A k \in MsetKeys(call'[p]) :
                    /\ cstore'[k].present
                    /\ cstore'[k].orig = DeepValue(heap', call'[p].val)
        /\ call[p].op = "mset" /\ call[p].pc = "mtrack" /\ call'[p].pc = "done"
                /\ call[p].err = "none" =>
              /\ call'[p].ret = "void"
              /\ MsetKeys(call[p]) \subseteq cachedKeys'
C15_InvalidKeyIsNoOp == [][C15_Step]_vars
\* an mset whose first entry has the empty key has returned, its other entry
\* stored and tracked; before it, the store held nothing
C15_Witness ==
    \E p \in Callers :
        /\ call[p].op = "mset" /\ call[p].pc = "done" /\ call[p].err = "none"
        /\ Len(call[p].keys) = 2 /\ ~ValidKey(call[p].keys[1])
        /\ \A k \in MsetKeys(call[p]) : cstore[k].present /\ k \in cachedKeys
        /\ MsetKeys(call[p]) # {}

\* a call that has returned or thrown
Returned(p) == call[p].pc = "done"
BadKeySet(p) == call[p].op = "set" /\ ~ValidKey(call[p].key)
BadBulkArg(p) == call[p].op \in {"mset", "mget"} /\ call[p].err = "arg"

WindowTicks(k) == WindowSeconds(policy[k[2]].windowMs) * TicksPerSec

\* C17: under any interleaving of concurrent requests, every record of the
\* store has an expiry, and its remaining time to live is more than 0 and at
\* most floor(windowMs / 1000) seconds.
C17_RecordsExpire ==
    \A k \in Keys :
        store[k].present =>
            /\ store[k].exp # NoExpiry
            /\ store[k].exp - now > 0
            /\ store[k].exp - now <= WindowTicks(k)
\* a record incremented twice, part of its window gone, while another request
\* is between its read and its transaction
C17_Witness ==
    \E k \in Keys, p \in Procs :
        /\ store[k].present /\ store[k].val >= 2
        /\ store[k].exp - now < WindowTicks(k)
        /\ req[p].pc = "multi" /\ RateKey(req[p].ip, req[p].route) = k

\* the step in which the request of p is rejected
Rejects(p) == req[p].pc = "ttl" /\ req'[p].pc = "done" /\ req'[p].res = "Rejected"

\* C18: a Rejected decision carries statusCode 429, the limit of the policy,
\* the counter the request read (at least the limit), remainingRequests 0 and
\* nextValidRequestTime = the time of the decision + the TTL the store reports
\* for the record at that moment; under any interleaving nextValidRequestTime
\* is not earlier than the time of the decision.
C18_Step ==
    \A p \in Procs :
        Rejects(p) =>
            LET e == Rejection(req'[p], now)
                key == RateKey(req[p].ip, req[p].route)
            IN /\ e.statusCode = 429
               /\ e.limit = policy[req[p].route].limit
               /\ e.current = req[p].cur /\ e.current >= e.limit
               /\ e.remainingRequests = 0
               /\ e.nextValidRequestTime = now + RedisTtl(store, key, now) * TicksPerSec
               /\ e.nextValidRequestTime >= now
C18_RejectionPayload == [][C18_Step]_vars

\* no cache call is in flight
Quiet == \A p \in Callers : call[p].pc \in {"idle", "done"}

\* C19: under any interleaving of concurrent set, delete and clear calls with
\* no store failure, whenever no call is in flight every entry of the store
\* has its namespaced key in the tracking set.
C19_TrackingCoversStore ==
    Quiet => \A k \in NsKeys : cstore[k].present => k \in cachedKeys

\* C20: with 0 <= windowMs < 1000 the expiry is floor(windowMs / 1000) = 0
\* seconds, the transaction that increments the record removes it, every
\* counter read sees 0 and no request is Rejected, however many are made.
C20_SubSecondNeverRejects ==
    SeqW < 1000 =>
        /\ WindowSeconds(SeqW) = 0
        /\ \A k \in Keys : ~store[k].present
        /\ req[1].pc # "ttl" /\ req[1].cur = 0
        /\ \A i \in Decisions : log[i].res = "Allowed" /\ log[i].cur = 0
\* more requests than the limit have been made within one window, all Allowed
C20_Witness ==
    /\ SeqW < 1000
    /\ Decisions = 1..MaxLog /\ MaxLog > SeqL
    /\ \A i \in Decisions : log[i].res = "Allowed" /\ WithinWindow(i)

====
